---- MODULE Spec2Model ----
(***************************************************************************)
(* caddy-thumbs: the thumbs_server HTTP handler (src/main.go, the current  *)
(* revision of the handler, lines 549-1131).                               *)
(*                                                                         *)
(* A request path is held in parsed-text form: the token's mode letters,   *)
(* its width and height digit strings, the comma separated fields that     *)
(* follow, and the source path as its directory segments, file stem and    *)
(* extension.  Texts are sequences of one-character strings, so that the   *)
(* regular expression of Provision, strconv.Atoi and filepath.Join are     *)
(* computed on the characters and segments.                                *)
(*                                                                         *)
(* The two stores are certmagic.Storage values outside the handler: Exists *)
(* answers from the store's content, Load and Store may fail (an I/O       *)
(* error), and a Store that fails writes nothing.                          *)
(***************************************************************************)
EXTENDS Integers, Sequences, FiniteSets, TLC

\* ------------------------------------------------------------------ bounds
\* Handler goroutines that may run at the same time.
NumProcs == 2
\* Requests served over one behaviour, over all goroutines.
MaxRequests == 2

Procs == 1..NumProcs

\* --------------------------------------------------- configuration defaults
MaxDimension == 2000
DefaultQuality == 85

\* ------------------------------------------------------------ scaling modes
SCALE_MODE_M == 0
SCALE_MODE_W == 1
SCALE_MODE_WLT == 2
SCALE_MODE_WLC == 3
SCALE_MODE_WLB == 4
SCALE_MODE_WRT == 5
SCALE_MODE_WRC == 6
SCALE_MODE_WRB == 7
SCALE_MODE_WCC == 8
SCALE_MODE_WCT == 9
SCALE_MODE_WCB == 10
CROP_MODE_LEFTTOP == 11
CROP_MODE_LEFTMIDDLE == 12
CROP_MODE_LEFTBOTTOM == 13
CROP_MODE_RIGHTTOP == 14
CROP_MODE_RIGHTMIDDLE == 15
CROP_MODE_RIGHTBOTTOM == 16
CROP_MODE_CENTERTOP == 17
CROP_MODE_CENTERCENTER == 18
CROP_MODE_CENTERBOTTOM == 19

cropModeMap ==
    [ m \in { <<"m">>, <<"w">>,
              <<"w","l","t">>, <<"w","l","c">>, <<"w","l","b">>,
              <<"w","r","t">>, <<"w","r","c">>, <<"w","r","b">>,
              <<"w","c","t">>, <<"w","c","c">>, <<"w","c","b">>, <<"w","c">>,
              <<"l","t">>, <<"l","c">>, <<"l","b">>,
              <<"r","t">>, <<"r","c">>, <<"r","b">>,
              <<"c","t">>, <<"c","c">>, <<"c","b">>, <<"c">> } |->
        CASE m = <<"m">> -> SCALE_MODE_M
          [] m = <<"w">> -> SCALE_MODE_W
          [] m = <<"w","l","t">> -> SCALE_MODE_WLT
          [] m = <<"w","l","c">> -> SCALE_MODE_WLC
          [] m = <<"w","l","b">> -> SCALE_MODE_WLB
          [] m = <<"w","r","t">> -> SCALE_MODE_WRT
          [] m = <<"w","r","c">> -> SCALE_MODE_WRC
          [] m = <<"w","r","b">> -> SCALE_MODE_WRB
          [] m = <<"w","c","t">> -> SCALE_MODE_WCT
          [] m = <<"w","c","c">> -> SCALE_MODE_WCC
          [] m = <<"w","c","b">> -> SCALE_MODE_WCB
          [] m = <<"w","c">> -> SCALE_MODE_WCC
          [] m = <<"l","t">> -> CROP_MODE_LEFTTOP
          [] m = <<"l","c">> -> CROP_MODE_LEFTMIDDLE
          [] m = <<"l","b">> -> CROP_MODE_LEFTBOTTOM
          [] m = <<"r","t">> -> CROP_MODE_RIGHTTOP
          [] m = <<"r","c">> -> CROP_MODE_RIGHTMIDDLE
          [] m = <<"r","b">> -> CROP_MODE_RIGHTBOTTOM
          [] m = <<"c","t">> -> CROP_MODE_CENTERTOP
          [] m = <<"c","c">> -> CROP_MODE_CENTERCENTER
          [] m = <<"c","b">> -> CROP_MODE_CENTERBOTTOM
          [] m = <<"c">> -> CROP_MODE_CENTERCENTER ]

\* ------------------------------------------------------- character classes
Lower == { "a","b","c","d","e","f","g","h","i","j","k","l","m",
           "n","o","p","q","r","s","t","u","v","w","x","y","z" }
Upper == { "A","B","C","D","E","F","G","H","I","J","K","L","M",
           "N","O","P","Q","R","S","T","U","V","W","X","Y","Z" }
DigitChars == { "0","1","2","3","4","5","6","7","8","9" }
HexChars == DigitChars \cup {"a","b","c","d","e","f","A","B","C","D","E","F"}
WordChars == Lower \cup Upper \cup DigitChars \cup {"_"}

AllIn(s, class) == \A i \in 1..Len(s) : s[i] \in class

DigitValue(c) ==
    CASE c = "0" -> 0 [] c = "1" -> 1 [] c = "2" -> 2 [] c = "3" -> 3
      [] c = "4" -> 4 [] c = "5" -> 5 [] c = "6" -> 6 [] c = "7" -> 7
      [] c = "8" -> 8 [] c = "9" -> 9

\* strconv.Atoi on a text of decimal digits (the only texts the regular
\* expression hands it); texts stay below 19 digits, where Atoi cannot fail.
Atoi(s) ==
    LET n[i \in 0..Len(s)] ==
            IF i = 0 THEN 0 ELSE 10 * n[i - 1] + DigitValue(s[i])
    IN  n[Len(s)]

\* ----------------------------------------------- the request path pattern
\* The fields of the pattern compiled in Provision:
\*   ([a-z]+)(\d+)x(\d+)  (?:,(hex{6}|hex{8}))?  (?:,q(\d+))?  (?:,(\w+))?
\*   \/  ((?:.+)(\.\w+))
IsColorField(f) == Len(f) \in {6, 8} /\ AllIn(f, HexChars)
IsQualityField(f) == Len(f) >= 2 /\ f[1] = "q" /\ AllIn(Tail(f), DigitChars)
IsWordField(f) == Len(f) >= 1 /\ AllIn(f, WordChars)

NoText == <<>>

\* The optional groups matched against the comma separated fields after the
\* dimensions: <<ok, color, quality digits, format>>.  Each group is tried
\* greedily in order and the match backtracks to skipping it.
MatchExtras(extras) ==
    LET n == Len(extras)
        \* candidate assignments: which of the three groups takes a field
        Cands == { c \in [1..3 -> BOOLEAN] :
                     /\ Cardinality({ g \in 1..3 : c[g] }) = n
                     /\ \A g \in 1..3 : c[g] =>
                          LET i == Cardinality({ k \in 1..g : c[k] })
                          IN  CASE g = 1 -> IsColorField(extras[i])
                                [] g = 2 -> IsQualityField(extras[i])
                                [] g = 3 -> IsWordField(extras[i]) }
        \* greedy preference: take group 1 if some match does, then group 2
        Pref1 == IF \E c \in Cands : c[1] THEN { c \in Cands : c[1] } ELSE Cands
        Pref2 == IF \E c \in Pref1 : c[2] THEN { c \in Pref1 : c[2] } ELSE Pref1
        Field(c, g) == IF c[g] THEN extras[Cardinality({ k \in 1..g : c[k] })]
                       ELSE NoText
    IN  IF n > 3 \/ Cands = {} THEN [ok |-> FALSE, color |-> NoText,
                                     quality |-> NoText, format |-> NoText]
        ELSE LET c == CHOOSE c \in Pref2 : TRUE
             IN  [ok |-> TRUE, color |-> Field(c, 1),
                  quality |-> IF c[2] THEN Tail(Field(c, 2)) ELSE NoText,
                  format |-> Field(c, 3)]

\* The text of the token directory: mode, width, "x", height and the fields,
\* each after a comma.
TokenText(path) ==
    LET f[i \in 0..Len(path.extras)] ==
            IF i = 0 THEN path.mode \o path.width \o <<"x">> \o path.height
            ELSE f[i - 1] \o <<",">> \o path.extras[i]
    IN  f[Len(path.extras)]

\* t.regex.FindStringSubmatch(path): the submatches, or matched = FALSE (nil).
\* The source path is any text ending in an extension, slashes and dots
\* included: its directory segments are kept apart (none of them has the
\* shape of a token, which the greedy prefix would take as the token).
FindStringSubmatch(path) ==
    LET ex == MatchExtras(path.extras)
        ok == /\ Len(path.mode) >= 1 /\ AllIn(path.mode, Lower)
              /\ Len(path.width) >= 1 /\ AllIn(path.width, DigitChars)
              /\ Len(path.height) >= 1 /\ AllIn(path.height, DigitChars)
              /\ ex.ok
              /\ Len(path.stem) >= 1 \/ Len(path.dirs) >= 1
              /\ Len(path.ext) >= 2 /\ path.ext[1] = "."
              /\ AllIn(Tail(path.ext), WordChars)
    IN  [matched |-> ok,
         modeDir |-> TokenText(path),
         mode |-> path.mode,
         width |-> path.width,
         height |-> path.height,
         bgColorHex |-> ex.color,
         qualityStr |-> ex.quality,
         formatOverride |-> ex.format,
         imagePath |-> Append(path.dirs, path.stem \o path.ext),
         format |-> path.ext]

\* Mutant: the maximum dimension itself is refused.
validateDimensions_MaxExcluded(width, height) ==
    IF width >= MaxDimension \/ height >= MaxDimension THEN "dimensions too large"
    ELSE IF width <= 0 \/ height <= 0 THEN "invalid dimensions"
    ELSE ""

\* validateDimensions: "" for nil, else the error's kind.
validateDimensions(width, height) ==
    IF width > MaxDimension \/ height > MaxDimension THEN "dimensions too large"
    ELSE IF width <= 0 \/ height <= 0 THEN "invalid dimensions"
    ELSE ""

\* The quality ServeHTTP settles on.
parseQuality(qualityStr) ==
    IF qualityStr # NoText /\ Atoi(qualityStr) >= 0 /\ Atoi(qualityStr) <= 100
    THEN Atoi(qualityStr)
    ELSE DefaultQuality

\* color.White, and parseHexColor: the color as its eight hex digits RRGGBBAA.
White == <<"f","f","f","f","f","f","f","f">>

parseHexColor(s) ==
    IF Len(s) # 6 /\ Len(s) # 8 THEN [err |-> TRUE, rgba |-> NoText]
    ELSE IF ~AllIn(s, HexChars) THEN [err |-> TRUE, rgba |-> NoText]
    ELSE IF Len(s) = 6 THEN [err |-> FALSE, rgba |-> s \o <<"f","f">>]
    ELSE [err |-> FALSE, rgba |-> s]

parseBgColor(bgColorHex) ==
    IF bgColorHex # NoText /\ ~parseHexColor(bgColorHex).err
    THEN parseHexColor(bgColorHex).rgba
    ELSE White

\* filepath.Join("/", ...): the segments joined and cleaned under the root.
\* A "." segment is dropped, a ".." segment drops the segment before it, and
\* at the root there is nothing to drop.
DotDot == <<".", ".">>
Join(segs) ==
    LET c[i \in 0..Len(segs)] ==
            IF i = 0 THEN <<>>
            ELSE IF segs[i] = <<".">> THEN c[i - 1]
            ELSE IF segs[i] = DotDot
            THEN IF c[i - 1] = <<>> THEN <<>>
                 ELSE SubSeq(c[i - 1], 1, Len(c[i - 1]) - 1)
            ELSE Append(c[i - 1], segs[i])
    IN  <<"/", c[Len(segs)]>>

\* Mutant: the thumbnail path built without the token directory.
thumbPathOf_NoModeDir(m) == Join(m.imagePath)

\* filepath.Join("/", modeDir, imagePath) and filepath.Join("/", imagePath);
\* imagePath itself is the unrooted text, as the pattern captured it.
thumbPathOf(m) == Join(<<m.modeDir>> \o m.imagePath)
originalPathOf(m) == Join(m.imagePath)
imagePathOf(m) == <<"", m.imagePath>>

\* ------------------------------------------------------------------ codecs
\* A source blob is its length in bytes, the signature its first bytes carry
\* ("jpeg" FFD8, "png", "riff" RIFF, "webp" WEBP, "other"), whether the stream
\* behind the signature is a complete image of that container, the picture's
\* size and an identity for its pixels.
Min(a, b) == IF a < b THEN a ELSE b
Max(a, b) == IF a > b THEN a ELSE b

NoImage == [w |-> 0, h |-> 0, px |-> <<>>]

\* jpeg.Decode / png.Decode / webp.Decode on the blob's bytes from `offset`
\* on: a decoder needs the stream from its first byte.
codecDecode(container, blob, offset) ==
    IF offset = 0 /\ blob.intact /\ blob.container = container
    THEN [err |-> "", img |-> [w |-> blob.w, h |-> blob.h, px |-> <<"src", blob.id>>]]
    ELSE [err |-> "decode failed", img |-> NoImage]

\* Where in the source the decoder decodeImage selects begins to read: the
\* JPEG and PNG decoders are handed the MultiReader, which replays the
\* sniffed bytes; the WebP decoder is handed reader, which stands behind them.
decoderOffset(blob) ==
    CASE blob.sig \in {"jpeg", "png"} -> 0
      [] blob.sig \in {"riff", "webp"} -> Min(16, blob.len)
      [] OTHER -> 0

\* decodeImage: sniff at most 16 bytes, then decode.  The JPEG and PNG
\* decoders read the sniffed bytes again through the MultiReader; the WebP
\* decoder is handed the reader the sniff has already advanced.
decodeImage(blob) ==
    LET numRead == Min(16, blob.len)
    IN  IF numRead >= 2
        THEN CASE blob.sig = "jpeg" -> codecDecode("jpeg", blob, decoderOffset(blob))
               [] blob.sig = "png" -> codecDecode("png", blob, decoderOffset(blob))
               [] blob.sig = "riff" -> codecDecode("webp", blob, decoderOffset(blob))
               [] blob.sig = "webp" -> codecDecode("webp", blob, decoderOffset(blob))
               [] OTHER -> [err |-> "unsupported image format", img |-> NoImage]
        ELSE [err |-> "unsupported image format, file header", img |-> NoImage]

NoBytes == [codec |-> "", q |-> 0, img |-> NoImage]

\* encodeImage: the encoded thumbnail, as its codec, the quality the codec
\* was given (PNG takes none) and the picture encoded.
encodeImage(img, quality, format) ==
    CASE format \in { <<".","j","p","g">>, <<".","j","p","e","g">> } ->
             [err |-> "", buf |-> [codec |-> "jpeg", q |-> quality, img |-> img]]
      [] format = <<".","p","n","g">> ->
             [err |-> "", buf |-> [codec |-> "png", q |-> -1, img |-> img]]
      [] format = <<".","w","e","b","p">> ->
             [err |-> "", buf |-> [codec |-> "webp", q |-> quality, img |-> img]]
      [] OTHER -> [err |-> "unsupported output format", buf |-> NoBytes]

\* ---------------------------------------------------------------- geometry
\* Go's integer division truncates toward zero.
TruncDiv(a, b) == IF a >= 0 THEN a \div b ELSE -((-a) \div b)
Abs(a) == IF a < 0 THEN -a ELSE a

\* Mutant: only the width is held to its limit.
Thumbnail_WidthOnly(maxWidth, maxHeight, img) ==
    IF maxWidth >= img.w THEN img
    ELSE [w |-> maxWidth, h |-> Max(1, (img.h * maxWidth) \div img.w),
          px |-> <<"scaled", img.px>>]

\* resize.Thumbnail(maxWidth, maxHeight, img, resize.Lanczos3) of
\* github.com/nfnt/resize: the image itself when it already fits, else the
\* image scaled down, aspect ratio kept, in unsigned integer arithmetic.
Thumbnail(maxWidth, maxHeight, img) ==
    IF maxWidth >= img.w /\ maxHeight >= img.h THEN img
    ELSE LET h1 == IF img.w > maxWidth
                   THEN Max(1, (img.h * maxWidth) \div img.w) ELSE img.h
             w1 == IF img.w > maxWidth THEN maxWidth ELSE img.w
             w2 == IF h1 > maxHeight
                   THEN Max(1, (w1 * maxHeight) \div h1) ELSE w1
             h2 == IF h1 > maxHeight THEN maxHeight ELSE h1
         IN  [w |-> w2, h |-> h2, px |-> <<"scaled", img.px>>]

\* Mutant: the canvas is made of the scaled image's size, not the target's.
generateThumbnailModeW_CanvasOfScaled(img, width, height, bgColor, modeId) ==
    LET resized == Thumbnail(width, height, img)
    IN  [w |-> resized.w, h |-> resized.h,
         px |-> <<"pad", bgColor, 0, 0, resized.w, resized.h, resized.px>>]

\* generateThumbnailModeW: the canvas, the background it is filled with and
\* the rectangle the scaled image is drawn at.
generateThumbnailModeW(img, width, height, bgColor, modeId) ==
    LET resized == Thumbnail(width, height, img)
        rw == resized.w
        rh == resized.h
        x0 == TruncDiv(width - rw, 2)
        y0 == TruncDiv(height - rh, 2)
        x1 == IF rw = width THEN 0 ELSE x0
        y1 == IF rw = width
              THEN CASE modeId \in {SCALE_MODE_WLT, SCALE_MODE_WCT, SCALE_MODE_WRT} -> 0
                     [] modeId \in {SCALE_MODE_WLC, SCALE_MODE_WCC, SCALE_MODE_WRC} ->
                            TruncDiv(height - rh, 2)
                     [] modeId \in {SCALE_MODE_WLB, SCALE_MODE_WRB, SCALE_MODE_WCB} ->
                            height - rh
                     [] OTHER -> y0
              ELSE y0
        y2 == IF rh = height THEN 0 ELSE y1
        x2 == IF rh = height
              THEN CASE modeId \in {SCALE_MODE_WLT, SCALE_MODE_WRT, SCALE_MODE_WCT} -> 0
                     [] modeId \in {SCALE_MODE_WLC, SCALE_MODE_WCC, SCALE_MODE_WRC} ->
                            TruncDiv(width - rw, 2)
                     [] modeId \in {SCALE_MODE_WLB, SCALE_MODE_WRB, SCALE_MODE_WCB} ->
                            width - rw
                     [] OTHER -> x1
              ELSE x1
    IN  [w |-> width, h |-> height,
         px |-> <<"pad", bgColor, x2, y2, rw, rh, resized.px>>]

\* Powers of two, and the m with 2^m <= n < 2^(m+1), for n >= 1.
Pow2(e) == LET f[i \in 0..e] == IF i = 0 THEN 1 ELSE 2 * f[i - 1] IN f[e]
ILog2(n) == CHOOSE m \in 0..30 : Pow2(m) <= n /\ (m = 30 \/ n < Pow2(m + 1))

\* uint(float64(c) * (float64(t) / float64(o))) for integers c, t, o >= 1, in
\* IEEE 754 double arithmetic, each operation rounded to nearest-even on 53
\* bits.  With k the exponent that puts t*2^k/o in [2^52, 2^53) and
\* r = t*2^k mod o, the quotient is rounded down by r/(o*2^k) when 2r < o
\* and up otherwise (2r = o cannot happen for t < 2^53).  The product with c
\* then lies below the exact c*t/o by c*r/(o*2^k); it converts to a smaller
\* integer only when c*t/o is an integer N and the rounded product falls
\* below N, that is when the deficit exceeds half the spacing of the doubles
\* just below N: 2^(M-53) for 2^M < N < 2^(M+1), 2^(M-54) for N = 2^M.
FloatScale(c, t, o) ==
    LET N == (c * t) \div o
        a == IF t >= o THEN ILog2(t \div o) ELSE 0
        j == IF t >= o THEN 0
             ELSE CHOOSE i \in 1..30 : t * Pow2(i) >= o /\ t * Pow2(i - 1) < o
        k == 52 + j - a
        pm[i \in 0..k] == IF i = 0 THEN 1 % o ELSE (2 * pm[i - 1]) % o
        r == (t * pm[k]) % o
        M == ILog2(N)
        e == IF N = Pow2(M) THEN j - a + M - 2 ELSE j - a + M - 1
    IN  IF (c * t) % o # 0 THEN N
        ELSE IF r = 0 \/ 2 * r > o THEN N
        ELSE IF e >= 0
        THEN IF c * r > o * Pow2(e) THEN N - 1 ELSE N
        ELSE IF c * r > o \div Pow2(-e) THEN N - 1 ELSE N

\* resize.Resize(width, height, img, resize.Lanczos3) of
\* github.com/nfnt/resize: an image of exactly width x height; a zero width
\* or height is taken from the other by the source's aspect ratio
\* (uint(0.7 + side / scale)), and the source itself when both are zero.
Resize(width, height, img) ==
    LET w1 == IF width # 0 THEN width
              ELSE IF height = 0 THEN img.w
              ELSE (10 * img.w * height + 7 * img.h) \div (10 * img.h)
        h1 == IF height # 0 THEN height
              ELSE IF width = 0 THEN img.h
              ELSE (10 * img.h * width + 7 * img.w) \div (10 * img.w)
    IN  IF w1 = img.w /\ h1 = img.h THEN img
        ELSE [w |-> w1, h |-> h1, px |-> <<"scaled", img.px>>]

\* generateThumbnailModeCrop: scale to cover, then the window drawn from
\* (x, y) of the scaled image; what lies beyond the scaled image stays the
\* canvas's transparent black.
generateThumbnailModeCrop(img, width, height, cropMode) ==
    LET byHeight == height * img.w > width * img.h   \* heightRatio > widthRatio
        scaledWidth == IF byHeight THEN FloatScale(img.w, height, img.h)
                       ELSE FloatScale(img.w, width, img.w)
        scaledHeight == IF byHeight THEN FloatScale(img.h, height, img.h)
                        ELSE FloatScale(img.h, width, img.w)
        resized == Resize(scaledWidth, scaledHeight, img)
        sw == resized.w
        sh == resized.h
        x0 == TruncDiv(sw - width, 2)
        y0 == TruncDiv(sh - height, 2)
        x1 == IF sw = width THEN 0 ELSE x0
        y1 == IF sw = width
              THEN CASE cropMode \in {CROP_MODE_LEFTTOP, CROP_MODE_CENTERTOP,
                                      CROP_MODE_RIGHTTOP} -> 0
                     [] cropMode \in {CROP_MODE_LEFTMIDDLE, CROP_MODE_CENTERCENTER,
                                      CROP_MODE_RIGHTMIDDLE} ->
                            Abs(TruncDiv(height - sh, 2))
                     [] cropMode \in {CROP_MODE_LEFTBOTTOM, CROP_MODE_CENTERBOTTOM,
                                      CROP_MODE_RIGHTBOTTOM} -> Abs(height - sh)
                     [] OTHER -> y0
              ELSE y0
        y2 == IF sh = height THEN 0 ELSE y1
        x2 == IF sh = height
              THEN CASE cropMode \in {CROP_MODE_LEFTTOP, CROP_MODE_LEFTMIDDLE,
                                      CROP_MODE_LEFTBOTTOM} -> 0
                     [] cropMode \in {CROP_MODE_RIGHTTOP, CROP_MODE_RIGHTMIDDLE,
                                      CROP_MODE_RIGHTBOTTOM} -> Abs(width - sw)
                     [] cropMode \in {CROP_MODE_CENTERTOP, CROP_MODE_CENTERCENTER,
                                      CROP_MODE_CENTERBOTTOM} ->
                            Abs(TruncDiv(width - sw, 2))
                     [] OTHER -> x1
              ELSE x1
    IN  [w |-> width, h |-> height,
         px |-> <<"crop", x2, y2, sw, sh, resized.px>>]

PadModes == { SCALE_MODE_WLT, SCALE_MODE_WLC, SCALE_MODE_WLB, SCALE_MODE_WRT,
              SCALE_MODE_WRC, SCALE_MODE_WRB, SCALE_MODE_WCC, SCALE_MODE_WCT,
              SCALE_MODE_WCB }
CropModes == { CROP_MODE_LEFTTOP, CROP_MODE_LEFTMIDDLE, CROP_MODE_LEFTBOTTOM,
               CROP_MODE_RIGHTTOP, CROP_MODE_RIGHTMIDDLE, CROP_MODE_RIGHTBOTTOM,
               CROP_MODE_CENTERTOP, CROP_MODE_CENTERCENTER, CROP_MODE_CENTERBOTTOM }

\* generateThumbnail: decode, look the mode up, transform, encode.
generateThumbnail(blob, width, height, mode, bgColor, quality, format) ==
    LET dec == decodeImage(blob)
    IN  IF dec.err # "" THEN [err |-> dec.err, buf |-> NoBytes]
        ELSE IF mode \notin DOMAIN cropModeMap
        THEN [err |-> "unsupported thumbnail mode", buf |-> NoBytes]
        ELSE LET modeId == cropModeMap[mode]
             IN  CASE modeId = SCALE_MODE_M ->
                        encodeImage(Thumbnail(width, height, dec.img), quality, format)
                   [] modeId \in PadModes ->
                        encodeImage(generateThumbnailModeW(dec.img, width, height,
                                                           bgColor, modeId),
                                    quality, format)
                   [] modeId \in CropModes ->
                        encodeImage(generateThumbnailModeCrop(dec.img, width, height,
                                                              modeId),
                                    quality, format)
                   [] OTHER -> [err |-> "unsupported thumbnail mode", buf |-> NoBytes]

\* ------------------------------------------------------------ the handler
VARIABLES
    imageStorage,   \* t.imageStorage: key -> source blob, for the keys it holds
    thumbsStorage,  \* t.thumbsStorage: key -> encoded thumbnail
    pc,             \* per goroutine: where its ServeHTTP call stands
    req,            \* per goroutine: r.URL.Path of the request it serves
    loc,            \* per goroutine: the locals ServeHTTP settles before CacheCheck
    gobytes,        \* per goroutine: the bytes the last Load returned
    result,         \* per goroutine: what generateThumbnail returned
    served,         \* per goroutine: the bytes written to the response
    outcome,        \* per goroutine: what ServeHTTP returned
    tr,             \* per goroutine: the store calls this request has made
    stores,         \* key -> successful Stores so far, over all requests
    started         \* requests begun so far

vars == <<imageStorage, thumbsStorage, pc, req, loc, gobytes, result, served,
          outcome, tr, stores, started>>

\* Source texts.
JpgExt == <<".","j","p","g">>
GifExt == <<".","g","i","f">>
WebpExt == <<".","w","e","b","p">>
D100 == <<"1","0","0">>
Red == <<"f","f","0","0","0","0">>

Path(mode, width, height, extras, dirs, stem, ext) ==
    [mode |-> mode, width |-> width, height |-> height, extras |-> extras,
     dirs |-> dirs, stem |-> stem, ext |-> ext]

\* The request paths the goroutines are given.
Paths ==
    { Path(<<"m">>, D100, D100, <<>>, <<>>, <<"a">>, JpgExt),
      Path(<<"w","c","c">>, D100, D100, <<Red, <<"q","8","5">> >>, <<>>, <<"a">>, JpgExt),
      Path(<<"w">>, <<"3","0","0">>, <<"3","0","0">>, <<Red>>, <<>>, <<"a">>, JpgExt),
      Path(<<"z","z">>, D100, D100, <<>>, <<>>, <<"a">>, JpgExt),
      Path(<<"m">>, <<"0">>, D100, <<>>, <<>>, <<"a">>, JpgExt),
      Path(<<"m">>, <<"2","0","0","1">>, D100, <<>>, <<>>, <<"a">>, JpgExt),
      Path(<<"M">>, D100, D100, <<>>, <<>>, <<"a">>, JpgExt),
      Path(<<"m">>, D100, D100, <<>>, <<>>, <<"n","o">>, JpgExt),
      Path(<<"m">>, D100, D100, <<>>, <<>>, <<"b">>, GifExt),
      Path(<<"m">>, D100, D100, <<>>, <<>>, <<"d">>, JpgExt),
      Path(<<"m">>, D100, D100, <<>>, <<DotDot>>, <<"a">>, JpgExt),
      Path(<<"w","c","c">>, D100, D100, <<>>, <<DotDot>>, <<"a">>, JpgExt) }

Blob(len, sig, container, intact, w, h, id) ==
    [len |-> len, sig |-> sig, container |-> container, intact |-> intact,
     w |-> w, h |-> h, id |-> id]

\* The image store: a.jpg, b.gif and c.webp answer to the rooted and to the
\* unrooted key alike (a store that resolves keys under a root directory);
\* d.jpg is held under its rooted key only (a store that takes keys as given).
\* The key ../a.jpg, which only Load is ever handed (imagePath is not
\* cleaned), is answered with another picture: a file store joins the key
\* to its root directory, and there is a file a.jpg one directory above it.
ImageFiles ==
    { << <<"/", <<<<"a">> \o JpgExt>> >>, Blob(5000, "jpeg", "jpeg", TRUE, 800, 600, "a") >>,
      << <<"", <<<<"a">> \o JpgExt>> >>, Blob(5000, "jpeg", "jpeg", TRUE, 800, 600, "a") >>,
      << <<"/", <<<<"b">> \o GifExt>> >>, Blob(900, "other", "gif", TRUE, 40, 30, "b") >>,
      << <<"", <<<<"b">> \o GifExt>> >>, Blob(900, "other", "gif", TRUE, 40, 30, "b") >>,
      << <<"/", <<<<"c">> \o WebpExt>> >>, Blob(700, "riff", "webp", TRUE, 64, 64, "c") >>,
      << <<"", <<<<"c">> \o WebpExt>> >>, Blob(700, "riff", "webp", TRUE, 64, 64, "c") >>,
      << <<"/", <<<<"d">> \o JpgExt>> >>, Blob(5000, "jpeg", "jpeg", TRUE, 300, 400, "d") >>,
      << <<"", <<DotDot, <<"a">> \o JpgExt>> >>, Blob(4000, "jpeg", "jpeg", TRUE, 640, 480, "p") >> }

InitialImages ==
    [ k \in { f[1] : f \in ImageFiles } |->
        (CHOOSE f \in ImageFiles : f[1] = k)[2] ]

NoPath == Path(<<>>, <<>>, <<>>, <<>>, <<>>, <<>>, <<>>)

\* ServeHTTP's locals once the path has matched and the dimensions passed.
Locals(m) ==
    [mode |-> m.mode,
     width |-> Atoi(m.width),
     height |-> Atoi(m.height),
     quality |-> parseQuality(m.qualityStr),
     bgColor |-> parseBgColor(m.bgColorHex),
     format |-> m.format,
     thumbPath |-> thumbPathOf(m),
     originalPath |-> originalPathOf(m),
     imagePath |-> imagePathOf(m)]
NoLocals ==
    [mode |-> <<>>, width |-> 0, height |-> 0, quality |-> 0, bgColor |-> <<>>,
     format |-> <<>>, thumbPath |-> <<>>, originalPath |-> <<>>, imagePath |-> <<>>]
NoOutcome == [kind |-> "", msg |-> ""]
NoCalls == [thumbExists |-> 0, thumbLoad |-> 0, imageExists |-> 0,
            imageLoad |-> 0, generate |-> 0, thumbStore |-> 0,
            cache |-> "", fetched |-> "", source |-> "", loaded |-> "",
            generated |-> "", stored |-> "", prior |-> ""]
EmptyStore == [ k \in {} |-> NoBytes ]

Init ==
    /\ imageStorage = InitialImages
    /\ thumbsStorage = EmptyStore
    /\ pc = [p \in Procs |-> "idle"]
    /\ req = [p \in Procs |-> NoPath]
    /\ loc = [p \in Procs |-> NoLocals]
    /\ gobytes = [p \in Procs |-> NoBytes]
    /\ result = [p \in Procs |-> NoBytes]
    /\ served = [p \in Procs |-> NoBytes]
    /\ outcome = [p \in Procs |-> NoOutcome]
    /\ tr = [p \in Procs |-> NoCalls]
    /\ stores = [ k \in {} |-> 0 ]
    /\ started = 0

\* The locals of goroutine p's call.
Matches(p) == FindStringSubmatch(req[p])
thumbPath(p) == loc[p].thumbPath
originalPath(p) == loc[p].originalPath
imagePath(p) == loc[p].imagePath

\* certmagic.Storage: Exists, and what a Load that returns hands back.
Exists(storage, key) == key \in DOMAIN storage
Put(storage, key, value) ==
    [ k \in DOMAIN storage \cup {key} |-> IF k = key THEN value ELSE storage[k] ]

\* What has happened to cache key key by the time a call for it begins:
\* "served" when a request for it has returned Ok after generating, "stored"
\* when the thumbnail store holds it without that, "" when it is absent.
PriorOf(key) ==
    IF \E q \in Procs :
           /\ pc[q] = "done" /\ outcome[q].kind = "Ok" /\ tr[q].generate = 1
           /\ thumbPath(q) = key
    THEN "served"
    ELSE IF key \in DOMAIN thumbsStorage THEN "stored" ELSE ""

\* return from ServeHTTP
Return(p, kind, msg) ==
    /\ pc' = [pc EXCEPT ![p] = "done"]
    /\ outcome' = [outcome EXCEPT ![p] = [kind |-> kind, msg |-> msg]]

\* ServeHTTP up to the first store call: match the path, validate the
\* dimensions, settle quality, color and the two paths.
Resolve(p, path) ==
    /\ pc[p] \in {"idle", "done"}
    /\ started < MaxRequests
    /\ started' = started + 1
    /\ req' = [req EXCEPT ![p] = path]
    /\ gobytes' = [gobytes EXCEPT ![p] = NoBytes]
    /\ result' = [result EXCEPT ![p] = NoBytes]
    /\ served' = [served EXCEPT ![p] = NoBytes]
    /\ tr' = [tr EXCEPT ![p] =
                 LET m == FindStringSubmatch(path)
                 IN  IF m.matched /\ validateDimensions(Atoi(m.width), Atoi(m.height)) = ""
                     THEN [NoCalls EXCEPT !.prior = PriorOf(thumbPathOf(m))]
                     ELSE NoCalls]
    /\ LET m == FindStringSubmatch(path)
       IN  IF ~m.matched
           THEN Return(p, "NotFound", "invalid thumbnail request format")
           ELSE IF validateDimensions(Atoi(m.width), Atoi(m.height)) # ""
           THEN Return(p, "BadRequest", validateDimensions(Atoi(m.width), Atoi(m.height)))
           ELSE /\ pc' = [pc EXCEPT ![p] = "CacheCheck"]
                /\ outcome' = [outcome EXCEPT ![p] = NoOutcome]
    /\ loc' = [loc EXCEPT ![p] =
                 LET m == FindStringSubmatch(path)
                 IN  IF m.matched /\ validateDimensions(Atoi(m.width), Atoi(m.height)) = ""
                     THEN Locals(m) ELSE NoLocals]
    /\ UNCHANGED <<imageStorage, thumbsStorage, stores>>

\* Mutant: a cached thumbnail is noticed but the early return is missing.
CacheCheck_FallThrough(p) ==
    /\ pc[p] = "CacheCheck"
    /\ pc' = [pc EXCEPT ![p] = "SourceCheck"]
    /\ tr' = [tr EXCEPT ![p].thumbExists = @ + 1,
                        ![p].cache = IF Exists(thumbsStorage, thumbPath(p))
                                     THEN "hit" ELSE "miss"]
    /\ UNCHANGED <<imageStorage, thumbsStorage, req, loc, gobytes, result, served,
                   outcome, stores, started>>

\* Mutant: the thumbnail store is never found to hold the key.
CacheCheck_AlwaysMiss(p) ==
    /\ pc[p] = "CacheCheck"
    /\ pc' = [pc EXCEPT ![p] = "SourceCheck"]
    /\ tr' = [tr EXCEPT ![p].thumbExists = @ + 1, ![p].cache = "miss"]
    /\ UNCHANGED <<imageStorage, thumbsStorage, req, loc, gobytes, result, served,
                   outcome, stores, started>>

\* t.thumbsStorage.Exists(t.ctx, thumbPath)
CacheCheck(p) ==
    /\ pc[p] = "CacheCheck"
    /\ IF Exists(thumbsStorage, thumbPath(p))
       THEN /\ pc' = [pc EXCEPT ![p] = "ServeCached"]
            /\ tr' = [tr EXCEPT ![p].thumbExists = @ + 1, ![p].cache = "hit"]
       ELSE /\ pc' = [pc EXCEPT ![p] = "SourceCheck"]
            /\ tr' = [tr EXCEPT ![p].thumbExists = @ + 1, ![p].cache = "miss"]
    /\ UNCHANGED <<imageStorage, thumbsStorage, req, loc, gobytes, result, served,
                   outcome, stores, started>>

\* t.thumbsStorage.Load(t.ctx, thumbPath), then the cached bytes are served.
ServeCached(p) ==
    /\ pc[p] = "ServeCached"
    /\ \E loaded \in BOOLEAN :
         IF loaded /\ Exists(thumbsStorage, thumbPath(p))
         THEN /\ tr' = [tr EXCEPT ![p].thumbLoad = @ + 1, ![p].fetched = "ok"]
              /\ gobytes' = [gobytes EXCEPT ![p] = thumbsStorage[thumbPath(p)]]
              /\ served' = [served EXCEPT ![p] = thumbsStorage[thumbPath(p)]]
              /\ Return(p, "Ok", "")
         ELSE /\ tr' = [tr EXCEPT ![p].thumbLoad = @ + 1, ![p].fetched = "failed"]
              /\ Return(p, "StorageError", "load")
              /\ UNCHANGED <<gobytes, served>>
    /\ UNCHANGED <<imageStorage, thumbsStorage, req, loc, result, stores, started>>

\* Mutant: the existence check's answer is not acted on.
SourceCheck_Ignored(p) ==
    /\ pc[p] = "SourceCheck"
    /\ pc' = [pc EXCEPT ![p] = "Load"]
    /\ tr' = [tr EXCEPT ![p].imageExists = @ + 1,
                        ![p].source = IF Exists(imageStorage, originalPath(p))
                                      THEN "present" ELSE "absent"]
    /\ UNCHANGED <<imageStorage, thumbsStorage, req, loc, gobytes, result, served,
                   outcome, stores, started>>

\* t.imageStorage.Exists(t.ctx, originalPath)
SourceCheck(p) ==
    /\ pc[p] = "SourceCheck"
    /\ IF Exists(imageStorage, originalPath(p))
       THEN /\ pc' = [pc EXCEPT ![p] = "Load"]
            /\ tr' = [tr EXCEPT ![p].imageExists = @ + 1, ![p].source = "present"]
            /\ UNCHANGED outcome
       ELSE /\ tr' = [tr EXCEPT ![p].imageExists = @ + 1, ![p].source = "absent"]
            /\ Return(p, "NotFound", "original image not found")
    /\ UNCHANGED <<imageStorage, thumbsStorage, req, loc, gobytes, result, served,
                   stores, started>>

\* Mutant: a failed Load is tried again instead of ending the request.
Load_Retry(p) ==
    /\ pc[p] = "Load"
    /\ \E loaded \in BOOLEAN :
         IF loaded /\ Exists(imageStorage, imagePath(p))
         THEN /\ tr' = [tr EXCEPT ![p].imageLoad = @ + 1, ![p].loaded = "ok"]
              /\ gobytes' = [gobytes EXCEPT ![p] = imageStorage[imagePath(p)]]
              /\ pc' = [pc EXCEPT ![p] = "Generate"]
         ELSE /\ tr' = [tr EXCEPT ![p].imageLoad = @ + 1, ![p].loaded = "failed"]
              /\ UNCHANGED <<gobytes, pc>>
    /\ UNCHANGED <<imageStorage, thumbsStorage, req, loc, result, served, outcome,
                   stores, started>>

\* t.imageStorage.Load(t.ctx, imagePath)
Load(p) ==
    /\ pc[p] = "Load"
    /\ \E loaded \in BOOLEAN :
         IF loaded /\ Exists(imageStorage, imagePath(p))
         THEN /\ tr' = [tr EXCEPT ![p].imageLoad = @ + 1, ![p].loaded = "ok"]
              /\ gobytes' = [gobytes EXCEPT ![p] = imageStorage[imagePath(p)]]
              /\ pc' = [pc EXCEPT ![p] = "Generate"]
              /\ UNCHANGED outcome
         ELSE /\ tr' = [tr EXCEPT ![p].imageLoad = @ + 1, ![p].loaded = "failed"]
              /\ Return(p, "StorageError", "load")
              /\ UNCHANGED gobytes
    /\ UNCHANGED <<imageStorage, thumbsStorage, req, loc, result, served, stores, started>>

\* Mutant: the encoder's output carries something of the call that made it.
Generated_PerCall(p, blob) ==
    LET g == generateThumbnail(blob, loc[p].width, loc[p].height, loc[p].mode,
                               loc[p].bgColor, loc[p].quality, loc[p].format)
    IN  IF g.err # "" THEN g
        ELSE [err |-> "", buf |-> [codec |-> g.buf.codec, q |-> g.buf.q + p,
                                   img |-> g.buf.img]]

\* The signature a file of the given extension is expected to carry.
ExtSignature(format) ==
    CASE format \in { <<".","j","p","g">>, <<".","j","p","e","g">> } -> "jpeg"
      [] format = <<".","p","n","g">> -> "png"
      [] format = <<".","w","e","b","p">> -> "riff"
      [] OTHER -> "other"

\* Mutant: the decoder is chosen by the request's extension, not by sniffing.
Generated_DecodeByExtension(p, blob) ==
    generateThumbnail([blob EXCEPT !.sig = ExtSignature(loc[p].format)],
                      loc[p].width, loc[p].height, loc[p].mode,
                      loc[p].bgColor, loc[p].quality, loc[p].format)

\* What goroutine p's call hands generateThumbnail, and what comes back.
Generated(p, blob) ==
    generateThumbnail(blob, loc[p].width, loc[p].height, loc[p].mode,
                      loc[p].bgColor, loc[p].quality, loc[p].format)

\* Mutant: the error generateThumbnail returns is not checked.
Generate_IgnoreErr(p) ==
    /\ pc[p] = "Generate"
    /\ LET g == Generated(p, gobytes[p])
       IN  /\ tr' = [tr EXCEPT ![p].generate = @ + 1,
                               ![p].generated = IF g.err # "" THEN "failed" ELSE "ok"]
           /\ result' = [result EXCEPT ![p] = g.buf]
           /\ pc' = [pc EXCEPT ![p] = "Persist"]
    /\ UNCHANGED <<imageStorage, thumbsStorage, req, loc, gobytes, served, outcome,
                   stores, started>>

\* t.generateThumbnail(reader, ...)
Generate(p) ==
    /\ pc[p] = "Generate"
    /\ IF Generated(p, gobytes[p]).err # ""
       THEN /\ tr' = [tr EXCEPT ![p].generate = @ + 1, ![p].generated = "failed"]
            /\ Return(p, "GenerationError", "unsupported thumbnail mode")
            /\ UNCHANGED result
       ELSE /\ tr' = [tr EXCEPT ![p].generate = @ + 1, ![p].generated = "ok"]
            /\ result' = [result EXCEPT ![p] = Generated(p, gobytes[p]).buf]
            /\ pc' = [pc EXCEPT ![p] = "Persist"]
            /\ UNCHANGED outcome
    /\ UNCHANGED <<imageStorage, thumbsStorage, req, loc, gobytes, served, stores, started>>

\* Mutant: the thumbnail is stored through the image store's handle.
Persist_ToImageStorage(p) ==
    /\ pc[p] = "Persist"
    /\ \E written \in BOOLEAN :
         IF written
         THEN /\ imageStorage' = Put(imageStorage, thumbPath(p), result[p])
              /\ tr' = [tr EXCEPT ![p].thumbStore = @ + 1, ![p].stored = "ok"]
              /\ pc' = [pc EXCEPT ![p] = "ServeGenerated"]
              /\ UNCHANGED outcome
         ELSE /\ tr' = [tr EXCEPT ![p].thumbStore = @ + 1, ![p].stored = "failed"]
              /\ Return(p, "StorageError", "store")
              /\ UNCHANGED imageStorage
    /\ UNCHANGED <<thumbsStorage, stores, req, loc, gobytes, result, served, started>>

\* Mutant: the error Store returns is not checked.
Persist_IgnoreErr(p) ==
    /\ pc[p] = "Persist"
    /\ \E written \in BOOLEAN :
         /\ IF written
            THEN /\ thumbsStorage' = Put(thumbsStorage, thumbPath(p), result[p])
                 /\ stores' = Put(stores, thumbPath(p),
                                  IF thumbPath(p) \in DOMAIN stores
                                  THEN stores[thumbPath(p)] + 1 ELSE 1)
                 /\ tr' = [tr EXCEPT ![p].thumbStore = @ + 1, ![p].stored = "ok"]
            ELSE /\ tr' = [tr EXCEPT ![p].thumbStore = @ + 1, ![p].stored = "failed"]
                 /\ UNCHANGED <<thumbsStorage, stores>>
         /\ pc' = [pc EXCEPT ![p] = "ServeGenerated"]
    /\ UNCHANGED <<imageStorage, req, loc, gobytes, result, served, outcome, started>>

\* Mutant: a Store leaves the thumbnail store holding the written key alone.
Persist_Evict(p) ==
    /\ pc[p] = "Persist"
    /\ \E written \in BOOLEAN :
         IF written
         THEN /\ thumbsStorage' = Put(EmptyStore, thumbPath(p), result[p])
              /\ stores' = Put(stores, thumbPath(p),
                               IF thumbPath(p) \in DOMAIN stores
                               THEN stores[thumbPath(p)] + 1 ELSE 1)
              /\ tr' = [tr EXCEPT ![p].thumbStore = @ + 1, ![p].stored = "ok"]
              /\ pc' = [pc EXCEPT ![p] = "ServeGenerated"]
              /\ UNCHANGED outcome
         ELSE /\ tr' = [tr EXCEPT ![p].thumbStore = @ + 1, ![p].stored = "failed"]
              /\ Return(p, "StorageError", "store")
              /\ UNCHANGED <<thumbsStorage, stores>>
    /\ UNCHANGED <<imageStorage, req, loc, gobytes, result, served, started>>

\* t.thumbsStorage.Store(t.ctx, thumbPath, result)
Persist(p) ==
    /\ pc[p] = "Persist"
    /\ \E written \in BOOLEAN :
         IF written
         THEN /\ thumbsStorage' = Put(thumbsStorage, thumbPath(p), result[p])
              /\ stores' = Put(stores, thumbPath(p),
                               IF thumbPath(p) \in DOMAIN stores
                               THEN stores[thumbPath(p)] + 1 ELSE 1)
              /\ tr' = [tr EXCEPT ![p].thumbStore = @ + 1, ![p].stored = "ok"]
              /\ pc' = [pc EXCEPT ![p] = "ServeGenerated"]
              /\ UNCHANGED outcome
         ELSE /\ tr' = [tr EXCEPT ![p].thumbStore = @ + 1, ![p].stored = "failed"]
              /\ Return(p, "StorageError", "store")
              /\ UNCHANGED <<thumbsStorage, stores>>
    /\ UNCHANGED <<imageStorage, req, loc, gobytes, result, served, started>>

\* Mutant: the response is written from the source bytes' reader.
ServeGenerated_SourceBytes(p) ==
    /\ pc[p] = "ServeGenerated"
    /\ served' = [served EXCEPT ![p] = gobytes[p]]
    /\ Return(p, "Ok", "")
    /\ UNCHANGED <<imageStorage, thumbsStorage, req, loc, gobytes, result, tr, stores, started>>

\* http.ServeContent(w, r, ..., bytes.NewReader(result)); return nil
ServeGenerated(p) ==
    /\ pc[p] = "ServeGenerated"
    /\ served' = [served EXCEPT ![p] = result[p]]
    /\ Return(p, "Ok", "")
    /\ UNCHANGED <<imageStorage, thumbsStorage, req, loc, gobytes, result, tr, stores, started>>

Step(p) ==
    \/ CacheCheck(p)
    \/ ServeCached(p)
    \/ SourceCheck(p)
    \/ Load(p)
    \/ Generate(p)
    \/ Persist(p)
    \/ ServeGenerated(p)

Next ==
    \/ \E p \in Procs, path \in Paths : Resolve(p, path)
    \/ \E p \in Procs : CacheCheck(p)
    \/ \E p \in Procs : ServeCached(p)
    \/ \E p \in Procs : SourceCheck(p)
    \/ \E p \in Procs : Load(p)
    \/ \E p \in Procs : Generate(p)
    \/ \E p \in Procs : Persist(p)
    \/ \E p \in Procs : ServeGenerated(p)

Spec == Init /\ [][Next]_vars

\* ------------------------------------- one request over each source picture
\* The sizes of the picture held as a.jpg: wider than tall, taller than wide,
\* the target itself, smaller than every target, and sizes whose scale to
\* cover is not exact in float64.
SourceSizes ==
    { <<800, 600>>, <<300, 400>>, <<500, 335>>, <<335, 500>>, <<100, 100>>,
      <<40, 30>>, <<640, 97>> }

SourceStore(size) ==
    [ k \in { <<"/", <<<<"a">> \o JpgExt>> >>, <<"", <<<<"a">> \o JpgExt>> >> } |->
        Blob(5000, "jpeg", "jpeg", TRUE, size[1], size[2], "a") ]

PadTokens ==
    { <<"w","l","t">>, <<"w","l","c">>, <<"w","l","b">>,
      <<"w","r","t">>, <<"w","r","c">>, <<"w","r","b">>,
      <<"w","c","t">>, <<"w","c","c">>, <<"w","c","b">> }
CropTokens ==
    { <<"l","t">>, <<"l","c">>, <<"l","b">>, <<"r","t">>, <<"r","c">>, <<"r","b">>,
      <<"c","t">>, <<"c","c">>, <<"c","b">>, <<"c">> }

D120 == <<"1","2","0">>
D80 == <<"8","0">>
D2000 == <<"2","0","0","0">>
D2001 == <<"2","0","0","1">>
Q85 == <<"q","8","5">>
PngWord == <<"p","n","g">>
ShortHex == <<"f","f","0","0">>
LongHex == <<"f","f","0","0","0","0","0">>
Q0 == <<"q","0">>
Q100 == <<"q","1","0","0">>
Q101 == <<"q","1","0","1">>
Q150 == <<"q","1","5","0">>
QWord == <<"q","a","b","c">>

\* The request paths of the single-request runs: every mode token at a
\* square and at an oblong target, the edges of the dimension range, tokens
\* with a format word, and tokens whose color field is malformed.
SinglePaths ==
    { Path(mode, D100, D100, <<Red>>, <<>>, <<"a">>, JpgExt) :
          mode \in PadTokens \cup { <<"w">>, <<"w","c">> } }
    \cup { Path(mode, D120, D80, <<Red>>, <<>>, <<"a">>, JpgExt) : mode \in PadTokens }
    \cup { Path(mode, D100, D100, <<>>, <<>>, <<"a">>, JpgExt) :
              mode \in CropTokens \cup { <<"m">> } }
    \cup { Path(mode, D120, D80, <<>>, <<>>, <<"a">>, JpgExt) :
              mode \in CropTokens \cup { <<"m">> } }
    \cup { Path(<<"m">>, d[1], d[2], <<>>, <<>>, <<"a">>, JpgExt) :
              d \in { << <<"1">>, <<"1">> >>, <<D2000, D2000>>, <<D2001, D100>>,
                      <<D100, D2001>>, << <<"0">>, D100 >>, << D100, <<"0">> >>,
                      <<D2000, <<"1">> >>, << <<"0">>, <<"0">> >> } }
    \cup { Path(<<"m">>, D100, D100, <<PngWord>>, <<>>, <<"a">>, JpgExt),
           Path(<<"m">>, D100, D100, <<Red, Q85, PngWord>>, <<>>, <<"a">>, JpgExt),
           Path(<<"w","c","c">>, D100, D100, <<ShortHex>>, <<>>, <<"a">>, JpgExt),
           Path(<<"w","c","c">>, D100, D100, <<LongHex>>, <<>>, <<"a">>, JpgExt),
           Path(<<"w","c","c">>, D100, D100, <<ShortHex, Q85>>, <<>>, <<"a">>, JpgExt),
           Path(<<"w","c","c">>, D100, D100, <<ShortHex, PngWord>>, <<>>, <<"a">>, JpgExt),
           Path(<<"w","c","c">>, D100, D100, <<Red, Q85>>, <<>>, <<"a">>, JpgExt) }
    \cup { Path(<<"f">>, D100, D100, <<>>, <<>>, <<"a">>, JpgExt),
           Path(<<"f">>, D120, D80, <<Red, Q85>>, <<>>, <<"a">>, JpgExt) }
    \cup { Path(<<"m">>, D100, D100, fields, <<>>, <<"a">>, JpgExt) :
              fields \in { <<Q0>>, <<Q100>>, <<Q101>>, <<Q150>>, <<QWord>>,
                           <<Red, Q150>>, <<QWord, PngWord>> } }

InitSingle ==
    /\ imageStorage \in { SourceStore(size) : size \in SourceSizes }
    /\ thumbsStorage = EmptyStore
    /\ pc = [p \in Procs |-> "idle"]
    /\ req = [p \in Procs |-> NoPath]
    /\ loc = [p \in Procs |-> NoLocals]
    /\ gobytes = [p \in Procs |-> NoBytes]
    /\ result = [p \in Procs |-> NoBytes]
    /\ served = [p \in Procs |-> NoBytes]
    /\ outcome = [p \in Procs |-> NoOutcome]
    /\ tr = [p \in Procs |-> NoCalls]
    /\ stores = [ k \in {} |-> 0 ]
    /\ started = 0

\* One ServeHTTP call, on an empty thumbnail store.
NextSingle ==
    \/ \E path \in SinglePaths : started = 0 /\ Resolve(1, path)
    \/ CacheCheck(1)
    \/ SourceCheck(1)
    \/ Load(1)
    \/ Generate(1)
    \/ Persist(1)
    \/ ServeGenerated(1)

SpecSingle == InitSingle /\ [][NextSingle]_vars

\* -------------------------------------------- requests over assorted sources
PngExt == <<".","p","n","g">>

\* An image store of sources whose names and contents agree or disagree:
\* a.jpg, a JPEG; a.png, the same bytes under another extension; b.gif, a
\* GIF; b.jpg, the bytes of b.gif named as a JPEG; c.webp, a WebP; e.png, a
\* PNG; t.jpg, a JPEG cut short after its header.  Every file answers to its
\* rooted and to its unrooted key.
SourceFiles ==
    { << <<"a">> \o JpgExt, Blob(5000, "jpeg", "jpeg", TRUE, 800, 600, "a") >>,
      << <<"a">> \o PngExt, Blob(5000, "jpeg", "jpeg", TRUE, 800, 600, "a") >>,
      << <<"b">> \o GifExt, Blob(900, "other", "gif", TRUE, 40, 30, "b") >>,
      << <<"b">> \o JpgExt, Blob(900, "other", "gif", TRUE, 40, 30, "b") >>,
      << <<"c">> \o WebpExt, Blob(700, "riff", "webp", TRUE, 64, 64, "c") >>,
      << <<"e">> \o PngExt, Blob(2000, "png", "png", TRUE, 200, 100, "e") >>,
      << <<"t">> \o JpgExt, Blob(3000, "jpeg", "jpeg", FALSE, 800, 600, "t") >> }

SourceImages ==
    [ k \in { <<root, <<f[1]>> >> : root \in {"/", ""}, f \in SourceFiles } |->
        (CHOOSE f \in SourceFiles : f[1] = k[2][1])[2] ]

SourcePaths ==
    { Path(<<"m">>, D100, D100, <<>>, <<>>, <<"a">>, JpgExt),
      Path(<<"m">>, D100, D100, <<>>, <<>>, <<"a">>, PngExt),
      Path(<<"m">>, D100, D100, <<>>, <<>>, <<"b">>, GifExt),
      Path(<<"m">>, D100, D100, <<>>, <<>>, <<"b">>, JpgExt),
      Path(<<"m">>, D100, D100, <<>>, <<>>, <<"c">>, WebpExt),
      Path(<<"m">>, D100, D100, <<>>, <<>>, <<"e">>, PngExt),
      Path(<<"m">>, D100, D100, <<>>, <<>>, <<"t">>, JpgExt),
      Path(<<"z","z">>, D100, D100, <<>>, <<>>, <<"a">>, JpgExt) }

InitSources ==
    /\ imageStorage = SourceImages
    /\ thumbsStorage = EmptyStore
    /\ pc = [p \in Procs |-> "idle"]
    /\ req = [p \in Procs |-> NoPath]
    /\ loc = [p \in Procs |-> NoLocals]
    /\ gobytes = [p \in Procs |-> NoBytes]
    /\ result = [p \in Procs |-> NoBytes]
    /\ served = [p \in Procs |-> NoBytes]
    /\ outcome = [p \in Procs |-> NoOutcome]
    /\ tr = [p \in Procs |-> NoCalls]
    /\ stores = [ k \in {} |-> 0 ]
    /\ started = 0

\* Concurrent ServeHTTP calls for these sources.
NextSources ==
    \/ \E p \in Procs, path \in SourcePaths : Resolve(p, path)
    \/ \E p \in Procs : CacheCheck(p)
    \/ \E p \in Procs : ServeCached(p)
    \/ \E p \in Procs : SourceCheck(p)
    \/ \E p \in Procs : Load(p)
    \/ \E p \in Procs : Generate(p)
    \/ \E p \in Procs : Persist(p)
    \/ \E p \in Procs : ServeGenerated(p)

SpecSources == InitSources /\ [][NextSources]_vars

\* =================================================================== claims
Done(p) == pc[p] = "done"
Active(p) == pc[p] \notin {"idle", "done"}

\* The request matched the pattern and passed validateDimensions.
Valid(p) ==
    /\ req[p] # NoPath
    /\ Matches(p).matched
    /\ validateDimensions(Atoi(Matches(p).width), Atoi(Matches(p).height)) = ""

NoImageStoreCall(p) == tr[p].imageExists = 0 /\ tr[p].imageLoad = 0
NoStoreCall(p) ==
    /\ tr[p].thumbExists = 0 /\ tr[p].thumbLoad = 0 /\ tr[p].thumbStore = 0
    /\ NoImageStoreCall(p)

\* The bytes a request for p's path, served alone, hands to Store.
SingleRequestBytes(p) == Generated(p, imageStorage[imagePath(p)]).buf

\* ----------------------------------------------------------------------- C1
\* C1 as stated: every valid request that finds its cache key in the
\* thumbnail store at CacheCheck ends Ok, serving the bytes loaded under that
\* key, with no image-store call, no generation and no thumbnail-store write.
C1_CacheHitEndsOk ==
    \A p \in Procs :
        (Done(p) /\ Valid(p) /\ tr[p].cache = "hit") =>
            /\ outcome[p].kind = "Ok"
            /\ served[p] = gobytes[p]
            /\ NoImageStoreCall(p) /\ tr[p].generate = 0 /\ tr[p].thumbStore = 0

\* C1 amended: a valid request that finds its cache key at CacheCheck makes
\* no image-store call, no generation and no thumbnail-store write; it ends
\* Ok serving exactly the bytes loaded from the thumbnail store under that
\* key, unless that Load fails, and then it ends StorageError serving nothing.
\* (The bytes loaded are the key's bytes for as long as no second Store to
\* the key has happened.)
C1_CacheHit ==
    \A p \in Procs :
        tr[p].cache = "hit" =>
            /\ Valid(p)
            /\ NoImageStoreCall(p) /\ tr[p].generate = 0 /\ tr[p].thumbStore = 0
            /\ result[p] = NoBytes
            /\ pc[p] \in {"ServeCached", "done"}
            /\ pc[p] = "ServeCached" => served[p] = NoBytes /\ tr[p].thumbLoad = 0
            /\ Done(p) =>
                 /\ tr[p].thumbLoad = 1
                 /\ \/ /\ tr[p].fetched = "ok"
                       /\ outcome[p].kind = "Ok"
                       /\ served[p] = gobytes[p]
                       /\ \/ gobytes[p] = thumbsStorage[thumbPath(p)]
                          \/ stores[thumbPath(p)] >= 2
                       /\ served[p] # NoBytes
                    \/ /\ tr[p].fetched = "failed"
                       /\ outcome[p].kind = "StorageError"
                       /\ served[p] = NoBytes

C1_Witness ==
    \E p \in Procs :
        /\ Done(p) /\ tr[p].cache = "hit" /\ outcome[p].kind = "Ok"
        /\ served[p] = thumbsStorage[thumbPath(p)] /\ served[p] # NoBytes

\* ----------------------------------------------------------------------- C2
\* C2 as stated: a valid request whose cache key is absent, whose source
\* exists and loads and whose generation succeeds ends Ok, having stored the
\* generated bytes under the cache key, and serves the bytes it stored.
C2_MissEndsOk ==
    \A p \in Procs :
        ( /\ Done(p) /\ Valid(p) /\ tr[p].cache = "miss"
          /\ tr[p].source = "present" /\ tr[p].loaded = "ok"
          /\ tr[p].generated = "ok" ) =>
            /\ outcome[p].kind = "Ok"
            /\ tr[p].stored = "ok"
            /\ served[p] = result[p]

\* C2 amended: such a request Stores the generated bytes under the cache
\* key before it serves anything; when that Store succeeds it ends Ok and
\* the bytes served are exactly the bytes it stored; when the Store fails it
\* ends StorageError and serves nothing.  (What it stored is what the key
\* holds for as long as no second Store to the key has happened.)
C2_CacheMiss ==
    \A p \in Procs :
        tr[p].generated = "ok" =>
            /\ Valid(p) /\ tr[p].cache = "miss"
            /\ tr[p].source = "present" /\ tr[p].loaded = "ok"
            /\ result[p] = Generated(p, gobytes[p]).buf /\ result[p] # NoBytes
            /\ pc[p] \in {"Persist", "ServeGenerated", "done"}
            /\ pc[p] = "Persist" => served[p] = NoBytes /\ tr[p].thumbStore = 0
            /\ pc[p] = "ServeGenerated" =>
                 /\ served[p] = NoBytes
                 /\ tr[p].stored = "ok"
                 /\ \/ thumbsStorage[thumbPath(p)] = result[p]
                    \/ stores[thumbPath(p)] >= 2
            /\ Done(p) =>
                 \/ /\ tr[p].stored = "ok"
                    /\ outcome[p].kind = "Ok"
                    /\ served[p] = result[p]
                    /\ \/ thumbsStorage[thumbPath(p)] = served[p]
                       \/ stores[thumbPath(p)] >= 2
                 \/ /\ tr[p].stored = "failed"
                    /\ outcome[p].kind = "StorageError"
                    /\ served[p] = NoBytes

C2_Witness ==
    \E p \in Procs :
        /\ Done(p) /\ tr[p].cache = "miss" /\ tr[p].generated = "ok"
        /\ tr[p].stored = "ok" /\ outcome[p].kind = "Ok"
        /\ served[p] = result[p] /\ thumbsStorage[thumbPath(p)] = served[p]

\* ----------------------------------------------------------------------- C3
\* What C3 allows one step to do to the thumbnail store: nothing, or the
\* Store of the complete encoding a successful generateThumbnail returned, by
\* a request that goes on to serve it; and a step that ends a request in any
\* outcome but Ok changes nothing, in a request that has written nothing.
C3_Step ==
    /\ thumbsStorage' # thumbsStorage =>
         \E p \in Procs :
            /\ pc[p] = "Persist" /\ pc'[p] = "ServeGenerated"
            /\ tr[p].generated = "ok"
            /\ Generated(p, gobytes[p]).err = ""
            /\ result[p] = Generated(p, gobytes[p]).buf
            /\ result[p].codec \in {"jpeg", "png", "webp"}
            /\ thumbsStorage' = Put(thumbsStorage, thumbPath(p), result[p])
    /\ \A p \in Procs :
         (pc[p] # "done" /\ pc'[p] = "done" /\ outcome'[p].kind # "Ok") =>
            /\ thumbsStorage' = thumbsStorage
            /\ tr'[p].stored # "ok"

StoreStep(p) == tr'[p].thumbStore = 1 /\ tr[p].thumbStore = 0

\* What C5 amended allows one step: no key is ever removed; a request Stores
\* at most once, and only after seeing the key absent at its CacheCheck; the
\* bytes under a key change only by a successful Store to it, which leaves
\* there what that request generated; and a Store that follows the only
\* other Store to the key, made by a request for the same path, leaves the
\* bytes as they were.
C5_Step ==
    /\ \A k \in DOMAIN thumbsStorage :
         /\ k \in DOMAIN thumbsStorage'
         /\ thumbsStorage'[k] # thumbsStorage[k] =>
               \E p \in Procs :
                   /\ StoreStep(p) /\ tr'[p].stored = "ok" /\ thumbPath(p) = k
                   /\ thumbsStorage'[k] = result[p]
    /\ \A p \in Procs :
         /\ tr'[p].thumbStore <= 1
         /\ StoreStep(p) =>
               /\ tr[p].cache = "miss"
               /\ \A q \in Procs \ {p} :
                     ( /\ req[q] = req[p] /\ tr[q].stored = "ok"
                       /\ stores[thumbPath(p)] = 1 ) =>
                         thumbsStorage'[thumbPath(p)] = thumbsStorage[thumbPath(p)]

Outcomes == {"Ok", "BadRequest", "NotFound", "StorageError", "GenerationError"}

\* The store calls a request has made by the time it stands at each stage.
CallsAt(l) ==
    CASE l = "CacheCheck" -> <<0, 0, 0, 0, 0, 0>>
      [] l = "ServeCached" -> <<1, 0, 0, 0, 0, 0>>
      [] l = "SourceCheck" -> <<1, 0, 0, 0, 0, 0>>
      [] l = "Load" -> <<1, 0, 1, 0, 0, 0>>
      [] l = "Generate" -> <<1, 0, 1, 1, 0, 0>>
      [] l = "Persist" -> <<1, 0, 1, 1, 1, 0>>
      [] l = "ServeGenerated" -> <<1, 0, 1, 1, 1, 1>>

Calls(p) == <<tr[p].thumbExists, tr[p].thumbLoad, tr[p].imageExists,
              tr[p].imageLoad, tr[p].generate, tr[p].thumbStore>>

\* C6: no retries and a single terminal outcome.  Within one request each of
\* thumbnail Exists, thumbnail Load, image Exists, image Load, Generate and
\* thumbnail Store is performed at most once, and in stage order; a request
\* that has not ended has no outcome and always has a next step (every store
\* call returning); a request that has ended has exactly one of Ok,
\* BadRequest, NotFound, StorageError, GenerationError.
C6_NoRetrySingleOutcome ==
    \A p \in Procs :
        /\ \A i \in 1..6 : Calls(p)[i] <= 1
        /\ Active(p) => Calls(p) = CallsAt(pc[p])
        /\ Active(p) => outcome[p] = NoOutcome
        /\ Active(p) => ENABLED Step(p)
        /\ Done(p) => outcome[p].kind \in Outcomes
        /\ pc[p] = "idle" => outcome[p] = NoOutcome /\ Calls(p) = CallsAt("CacheCheck")

C6_Witness ==
    \E p \in Procs :
        /\ Done(p) /\ outcome[p].kind = "Ok"
        /\ tr[p].thumbExists = 1 /\ tr[p].imageExists = 1 /\ tr[p].imageLoad = 1
        /\ tr[p].generate = 1 /\ tr[p].thumbStore = 1 /\ tr[p].thumbLoad = 0

\* ----------------------------------------------------------------------- C7
\* C7: the image store is read-only for the engine.  In every reachable
\* state, whatever requests have run and however they ended, the image store
\* holds exactly what it held at the start.
C7_ImageStoreReadOnly == imageStorage = InitialImages

C7_Witness ==
    \E p \in Procs :
        /\ Done(p) /\ outcome[p].kind = "Ok"
        /\ tr[p].imageExists = 1 /\ tr[p].imageLoad = 1 /\ tr[p].stored = "ok"
        /\ imageStorage = InitialImages

\* ----------------------------------------------------------------------- C8
\* C8: source missing.  A valid request whose cache key was absent at
\* CacheCheck and whose source key is not in the image store at SourceCheck
\* ends NotFound, with no Load, no generation, no Store and nothing served.
C8_SourceMissing ==
    \A p \in Procs :
        ( /\ tr[p].cache = "miss" /\ tr[p].imageExists = 1
          /\ originalPath(p) \notin DOMAIN imageStorage
          /\ Valid(p) ) =>
            /\ Done(p)
            /\ outcome[p].kind = "NotFound"
            /\ tr[p].source = "absent"
            /\ tr[p].imageLoad = 0 /\ tr[p].generate = 0 /\ tr[p].thumbStore = 0
            /\ gobytes[p] = NoBytes /\ result[p] = NoBytes /\ served[p] = NoBytes

C8_Witness ==
    \E p \in Procs :
        /\ Done(p) /\ Valid(p) /\ tr[p].cache = "miss"
        /\ originalPath(p) \notin DOMAIN imageStorage
        /\ outcome[p].kind = "NotFound" /\ tr[p].imageExists = 1

\* ----------------------------------------------------------------------- C9
\* C9: persist failure.  A request whose Store of the generated bytes fails
\* ends StorageError; it never reaches ServeGenerated and serves nothing.
C9_PersistFailure ==
    \A p \in Procs :
        tr[p].stored = "failed" =>
            /\ Done(p)
            /\ outcome[p].kind = "StorageError"
            /\ served[p] = NoBytes
            /\ tr[p].generated = "ok" /\ tr[p].thumbStore = 1

C9_Witness ==
    \E p \in Procs :
        /\ tr[p].stored = "failed" /\ Done(p)
        /\ outcome[p].kind = "StorageError" /\ result[p] # NoBytes

\* ---------------------------------------------------------------------- C10
\* C10: a request whose path does not match the token pattern, or whose mode
\* token is not in the mode vocabulary, ends BadRequest without any
\* thumbnail-store or image-store call.
C10_ResolveFailureIsBadRequest ==
    \A p \in Procs :
        ( /\ Done(p) /\ req[p] # NoPath
          /\ \/ ~Matches(p).matched
             \/ Matches(p).mode \notin DOMAIN cropModeMap ) =>
            /\ outcome[p].kind = "BadRequest"
            /\ NoStoreCall(p)

\* ---------------------------------------------------------------------- C11
\* C11: dimension validation.  A request whose path matches the pattern ends
\* BadRequest, with no store call made, exactly when its width or height is
\* below 1 or above the configured maximum; with 1 <= width <= max and
\* 1 <= height <= max (max included) it passes validation: it is not ended
\* at Resolve, its locals are settled and it goes on to CacheCheck.
C11_DimensionValidation ==
    \A p \in Procs :
        (req[p] # NoPath /\ Matches(p).matched) =>
            LET w == Atoi(Matches(p).width)
                h == Atoi(Matches(p).height)
                inRange == 1 <= w /\ w <= MaxDimension /\ 1 <= h /\ h <= MaxDimension
            IN  /\ ~inRange => /\ Done(p) /\ outcome[p].kind = "BadRequest"
                               /\ NoStoreCall(p) /\ loc[p] = NoLocals
                /\ inRange => /\ outcome[p].kind # "BadRequest"
                              /\ loc[p].width = w /\ loc[p].height = h
                              /\ tr[p].thumbExists = 1 \/ pc[p] = "CacheCheck"

C11_Witness ==
    \E p \in Procs :
        /\ Done(p) /\ Matches(p).matched
        /\ Atoi(Matches(p).width) = MaxDimension + 1
        /\ Atoi(Matches(p).height) <= MaxDimension
        /\ outcome[p].kind = "BadRequest" /\ NoStoreCall(p)

\* ---------------------------------------------------------------------- C12
\* C12: the cache key.  Two requests with the same token and the same source
\* path have the same cache key, and two requests that differ in mode, width,
\* height, color, quality or source key never have the same cache key.
C12_CacheKeySeparatesDescriptors ==
    \A p, q \in Procs :
        (Valid(p) /\ Valid(q)) =>
            /\ ( /\ Matches(p).modeDir = Matches(q).modeDir
                 /\ Matches(p).imagePath = Matches(q).imagePath ) =>
                   thumbPath(p) = thumbPath(q)
            /\ ( \/ loc[p].mode # loc[q].mode
                 \/ loc[p].width # loc[q].width
                 \/ loc[p].height # loc[q].height
                 \/ loc[p].bgColor # loc[q].bgColor
                 \/ loc[p].quality # loc[q].quality
                 \/ originalPath(p) # originalPath(q) ) =>
                   thumbPath(p) # thumbPath(q)

\* ---------------------------------------------------------------------- C13
\* C13: the bare mode token w is wcc.  A request with mode w whose source
\* has been loaded generates successfully, and what it generates is what the
\* same request with mode wcc generates.
C13_BareWIsWcc ==
    \A p \in Procs :
        (loc[p].mode = <<"w">> /\ tr[p].generate = 1) =>
            /\ tr[p].generated = "ok"
            /\ result[p] = generateThumbnail(gobytes[p], loc[p].width, loc[p].height,
                                             <<"w","c","c">>, loc[p].bgColor,
                                             loc[p].quality, loc[p].format).buf

\* ---------------------------------------------------------------------- C14
\* The offset an anchor letter asks for along one axis with `slack` to spare:
\* l or t the start, c the middle (truncated), r or b the end.
AnchorOffset(letter, slack) ==
    CASE letter \in {"l", "t"} -> 0
      [] letter = "c" -> TruncDiv(slack, 2)
      [] letter \in {"r", "b"} -> slack

\* The placement or crop record of a generated thumbnail.
Placed(p) == result[p].img.px
PadDone(p) == loc[p].mode \in PadTokens /\ tr[p].generated = "ok"

\* C14: pad anchor offsets.  For each of the nine pad tokens and a source
\* whose fit-scaled size equals the target in at least one dimension, the
\* scaled image is placed at the x its horizontal (second) letter asks for
\* and at the y its vertical (third) letter asks for.
C14_PadAnchorOffsets ==
    \A p \in Procs :
        PadDone(p) =>
            LET tw == loc[p].width
                th == loc[p].height
                sw == Placed(p)[5]
                sh == Placed(p)[6]
            IN  (sw = tw \/ sh = th) =>
                    /\ Placed(p)[3] = AnchorOffset(loc[p].mode[2], tw - sw)
                    /\ Placed(p)[4] = AnchorOffset(loc[p].mode[3], th - sh)

CropDone(p) == loc[p].mode \in CropTokens /\ tr[p].generated = "ok"

\* C16: the crop invariant.  Every thumbnail generated under a crop token is
\* exactly the target width and height, the scaled image covers the target
\* (sw >= tw, sh >= th) and the crop window lies within the scaled image
\* (0 <= x <= sw - tw, 0 <= y <= sh - th).
C16_CropInvariant ==
    \A p \in Procs :
        CropDone(p) =>
            LET tw == loc[p].width
                th == loc[p].height
                x == Placed(p)[2]
                y == Placed(p)[3]
                sw == Placed(p)[4]
                sh == Placed(p)[5]
            IN  /\ result[p].img.w = tw /\ result[p].img.h = th
                /\ sw >= tw /\ sh >= th
                /\ 0 <= x /\ x <= sw - tw
                /\ 0 <= y /\ y <= sh - th

\* ---------------------------------------------------------------------- C17
\* The horizontal and the vertical letter of a crop token; bare c is cc.
CropLetters(mode) == IF mode = <<"c">> THEN <<"c", "c">> ELSE mode

\* C17: crop anchor offsets.  For every crop token and every source, with
\* (sw, sh) the size the source was scaled to, the crop origin is the x its
\* horizontal (first) letter asks for of sw - tw and the y its vertical
\* (second) letter asks for of sh - th; and source 800x600 under cc100x100 is
\* scaled to 133x100 and cropped at x = 16, y = 0.
C17_CropAnchorOffsets ==
    \A p \in Procs :
        CropDone(p) =>
            LET tw == loc[p].width
                th == loc[p].height
                sw == Placed(p)[4]
                sh == Placed(p)[5]
            IN  /\ Placed(p)[2] = AnchorOffset(CropLetters(loc[p].mode)[1], sw - tw)
                /\ Placed(p)[3] = AnchorOffset(CropLetters(loc[p].mode)[2], sh - th)
                /\ ( /\ loc[p].mode = <<"c","c">> /\ tw = 100 /\ th = 100
                     /\ gobytes[p].w = 800 /\ gobytes[p].h = 600 ) =>
                       /\ sw = 133 /\ sh = 100
                       /\ Placed(p)[2] = 16 /\ Placed(p)[3] = 0

\* ---------------------------------------------------------------------- C18
\* C18 as stated: under mode m the output is no wider and no taller than the
\* target, and its width or its height is within one pixel of the target's.
C18_FitReachesTarget ==
    \A p \in Procs :
        (loc[p].mode = <<"m">> /\ tr[p].generated = "ok") =>
            /\ result[p].img.w <= loc[p].width
            /\ result[p].img.h <= loc[p].height
            /\ \/ loc[p].width - result[p].img.w <= 1
               \/ loc[p].height - result[p].img.h <= 1

\* C18 amended: under mode m the output is no wider and no taller than the
\* target.  A source wider or taller than the target is scaled down, and then
\* the output's width or its height equals the target's; a source that
\* already fits is not enlarged: the output is the source picture at its own
\* size.
C18_FitInvariant ==
    \A p \in Procs :
        (loc[p].mode = <<"m">> /\ tr[p].generate = 1) =>
            /\ tr[p].generated = "ok"
            /\ 1 <= result[p].img.w /\ result[p].img.w <= loc[p].width
            /\ 1 <= result[p].img.h /\ result[p].img.h <= loc[p].height
            /\ IF gobytes[p].w > loc[p].width \/ gobytes[p].h > loc[p].height
               THEN /\ \/ result[p].img.w = loc[p].width
                       \/ result[p].img.h = loc[p].height
                    /\ Placed(p) = <<"scaled", <<"src", gobytes[p].id>> >>
               ELSE /\ result[p].img.w = gobytes[p].w
                    /\ result[p].img.h = gobytes[p].h
                    /\ Placed(p) = <<"src", gobytes[p].id>>

\* Source 300x400 under m100x100 comes out 75x100.
C18_Witness ==
    \E p \in Procs :
        /\ Done(p) /\ outcome[p].kind = "Ok" /\ loc[p].mode = <<"m">>
        /\ gobytes[p].w = 300 /\ gobytes[p].h = 400
        /\ loc[p].width = 100 /\ loc[p].height = 100
        /\ served[p].img.w = 75 /\ served[p].img.h = 100

\* ---------------------------------------------------------------------- C19
\* The codec a format word names, the word taken without a leading dot.
CodecNamed(word) ==
    CASE word \in { <<"j","p","g">>, <<"j","p","e","g">> } -> "jpeg"
      [] word = <<"p","n","g">> -> "png"
      [] word = <<"w","e","b","p">> -> "webp"
      [] OTHER -> "none"

\* C19: output format resolution.  A generated thumbnail is encoded in the
\* format the token's format word names when the token carries one, and in
\* the format the source path's extension names when it carries none.
C19_FormatResolution ==
    \A p \in Procs :
        tr[p].generated = "ok" =>
            IF Matches(p).formatOverride # NoText
            THEN result[p].codec = CodecNamed(Matches(p).formatOverride)
            ELSE result[p].codec = CodecNamed(Tail(Matches(p).format))

\* ---------------------------------------------------------------------- C20
\* A path whose first field after the dimensions is hex digits but neither
\* six nor eight of them, and which is a valid request once that field is
\* taken away.
MalformedColor(path) ==
    /\ Len(path.extras) >= 1
    /\ Len(path.extras[1]) >= 1
    /\ AllIn(path.extras[1], HexChars)
    /\ Len(path.extras[1]) \notin {6, 8}
    /\ LET rest == [path EXCEPT !.extras = Tail(path.extras)]
       IN  /\ FindStringSubmatch(rest).matched
           /\ validateDimensions(Atoi(rest.width), Atoi(rest.height)) = ""

\* C20: a malformed color is not fatal.  An otherwise valid request whose
\* color field is malformed, whatever fields follow it, is matched and not
\* refused, and goes on with the opaque white background.
C20_MalformedColorNotFatal ==
    \A p \in Procs :
        (req[p] # NoPath /\ MalformedColor(req[p])) =>
            /\ Matches(p).matched
            /\ outcome[p].kind \notin {"NotFound", "BadRequest"}
            /\ loc[p].bgColor = White

\* ---------------------------------------------------------------------- C21
\* Where a path carries its quality field: the first field, or the second
\* after a well-formed color; 0 when it carries none.
QualityAt(path) ==
    IF Len(path.extras) >= 1 /\ path.extras[1][1] = "q" THEN 1
    ELSE IF /\ Len(path.extras) >= 2 /\ IsColorField(path.extras[1])
            /\ path.extras[2][1] = "q" THEN 2
    ELSE 0

\* The quality C21 gives a path: n for a field q{n} with 0 <= n <= 100, the
\* configured default for no field or any other field.
EffectiveQuality(path) ==
    LET i == QualityAt(path)
    IN  IF i = 0 THEN DefaultQuality
        ELSE IF IsQualityField(path.extras[i]) /\ Len(path.extras[i]) <= 4
                /\ Atoi(Tail(path.extras[i])) <= 100
        THEN Atoi(Tail(path.extras[i]))
        ELSE DefaultQuality

\* The path without its quality field.
WithoutQuality(path) ==
    LET i == QualityAt(path)
    IN  IF i = 0 THEN path
        ELSE [path EXCEPT !.extras = SubSeq(path.extras, 1, i - 1)
                                     \o SubSeq(path.extras, i + 1, Len(path.extras))]

\* C21: quality fallback.  A request that is valid apart from its quality
\* field is never refused on account of that field, and goes on with quality
\* n when the field is q{n} with 0 <= n <= 100 and with the configured
\* default when the field is absent, malformed or out of range.
C21_QualityFallback ==
    \A p \in Procs :
        ( /\ req[p] # NoPath
          /\ FindStringSubmatch(WithoutQuality(req[p])).matched
          /\ validateDimensions(Atoi(req[p].width), Atoi(req[p].height)) = "" ) =>
            /\ Matches(p).matched
            /\ loc[p] # NoLocals
            /\ loc[p].quality = EffectiveQuality(req[p])

\* ---------------------------------------------------------------------- C23
\* C23: mode token f is supported.  A request f{W}x{H} for an existing,
\* decodable source generates successfully and its thumbnail is exactly
\* W x H.
C23_FillModeSupported ==
    \A p \in Procs :
        (loc[p].mode = <<"f">> /\ tr[p].generate = 1) =>
            /\ tr[p].generated = "ok"
            /\ result[p].img.w = loc[p].width
            /\ result[p].img.h = loc[p].height

\* ---------------------------------------------------------------------- C24
\* The quality the documentation gives a request without a quality field
\* when no default_quality is configured.
DocumentedQuality == 90

\* C24: documented defaults.  With no default_quality configured, a request
\* whose token carries no quality field goes on with quality 90, and one
\* whose token carries no color field goes on with a white background.
C24_DocumentedDefaults ==
    \A p \in Procs :
        loc[p] # NoLocals =>
            /\ QualityAt(req[p]) = 0 => loc[p].quality = DocumentedQuality
            /\ ~(Len(req[p].extras) >= 1 /\ IsColorField(req[p].extras[1])) =>
                    loc[p].bgColor = White

\* ---------------------------------------------------------------------- C25
\* C25: pad anchoring of a non-upscaled image.  For every pad token and a
\* source smaller than the target in both dimensions, the image is placed at
\* the x its horizontal letter asks for and the y its vertical letter asks
\* for, as it is when the scaled image touches the canvas.
C25_PadAnchorsSmallSource ==
    \A p \in Procs :
        PadDone(p) =>
            LET tw == loc[p].width
                th == loc[p].height
                sw == Placed(p)[5]
                sh == Placed(p)[6]
                src == imageStorage[imagePath(p)]
            IN  (src.w < tw /\ src.h < th) =>
                    /\ sw < tw /\ sh < th
                    /\ Placed(p)[3] = AnchorOffset(loc[p].mode[2], tw - sw)
                    /\ Placed(p)[4] = AnchorOffset(loc[p].mode[3], th - sh)

\* ---------------------------------------------------------------------- C30
\* The bytes goroutine p's request produces on a cache miss: what Generate
\* makes of the source the request loads, when the source passes SourceCheck,
\* loads and generates; NoBytes when it does not.
MissBytes(p) ==
    IF /\ originalPath(p) \in DOMAIN imageStorage
       /\ imagePath(p) \in DOMAIN imageStorage
       /\ Generated(p, imageStorage[imagePath(p)]).err = ""
    THEN Generated(p, imageStorage[imagePath(p)]).buf
    ELSE NoBytes

\* C30: cache transparency.  From an empty thumbnail store and with an
\* unchanging image store, the entry held under a key equals what Generate
\* produces for the descriptor and source of every request that maps to the
\* key, and the bytes a request is served on a cache hit are the bytes it
\* would have produced on a miss.
C30_CacheTransparency ==
    \A p \in Procs :
        loc[p] # NoLocals =>
            /\ thumbPath(p) \in DOMAIN thumbsStorage =>
                  thumbsStorage[thumbPath(p)] = MissBytes(p)
            /\ (tr[p].cache = "hit" /\ Done(p) /\ outcome[p].kind = "Ok") =>
                  served[p] = MissBytes(p)

\* ---------------------------------------------------------------------- C28
\* C28: source key consistency.  On every cache miss the key whose existence
\* SourceCheck asks the image store about is the key Load is then handed, so
\* the bytes a successful Load returns are the bytes the store holds under
\* the key that passed SourceCheck.
C28_SourceKeyConsistency ==
    \A p \in Procs :
        tr[p].imageLoad = 1 =>
            /\ tr[p].source = "present"
            /\ originalPath(p) = imagePath(p)
            /\ tr[p].loaded = "ok" => gobytes[p] = imageStorage[originalPath(p)]

\* ---------------------------------------------------------------------- C29
\* C29 as stated: a request for a key that begins after a request for the
\* key has returned Ok through generation is served from the thumbnail
\* store, with no generation and no Store.
C29_LaterRequestsServed ==
    \A p \in Procs :
        (tr[p].prior = "served" /\ Done(p)) =>
            /\ outcome[p].kind = "Ok"
            /\ tr[p].cache = "hit" /\ served[p] = gobytes[p] /\ served[p] # NoBytes
            /\ tr[p].generate = 0 /\ tr[p].thumbStore = 0

\* A request that begins when the thumbnail store holds its key finds the
\* key at CacheCheck, asks the image store nothing, generates nothing and
\* Stores nothing; it ends Ok serving what it loaded from the thumbnail
\* store, or StorageError when that Load fails.
C29_Hits ==
    \A p \in Procs :
        tr[p].prior # "" =>
            /\ thumbPath(p) \in DOMAIN thumbsStorage
            /\ tr[p].thumbExists = 1 => tr[p].cache = "hit"
            /\ NoImageStoreCall(p) /\ tr[p].generate = 0 /\ tr[p].thumbStore = 0
            /\ pc[p] \in {"CacheCheck", "ServeCached", "done"}
            /\ Done(p) =>
                 \/ /\ tr[p].fetched = "ok" /\ outcome[p].kind = "Ok"
                    /\ served[p] = gobytes[p] /\ served[p] # NoBytes
                 \/ /\ tr[p].fetched = "failed" /\ outcome[p].kind = "StorageError"
                    /\ served[p] = NoBytes

\* No step takes a key out of the thumbnail store.
C29_Step == DOMAIN thumbsStorage \subseteq DOMAIN thumbsStorage'

\* C29 amended: cache effectiveness.  Once a request for key K has returned
\* Ok through generation (indeed once K has been Stored), every request for K
\* that begins afterwards finds K at CacheCheck and makes no image-store
\* call, no generation and no Store; it is served the bytes it loads from the
\* thumbnail store, unless that Load fails and it ends StorageError.  The
\* set of keys in the thumbnail store only grows.
C29_CacheEffectiveness == [](C29_Hits) /\ [][C29_Step]_vars

C29_Witness ==
    \E p \in Procs :
        /\ tr[p].prior = "served" /\ Done(p)
        /\ tr[p].cache = "hit" /\ outcome[p].kind = "Ok"
        /\ served[p] = thumbsStorage[thumbPath(p)]

\* ---------------------------------------------------------------------- C22
\* Why goroutine p's generation failed, as generateThumbnail reports it to
\* ServeHTTP.
Cause(p) == Generated(p, gobytes[p]).err
UnsupportedSource == {"unsupported image format", "unsupported image format, file header"}
OtherCauses == {"unsupported thumbnail mode", "decode failed", "unsupported output format"}

\* C22: unsupported source content is reported as such.  A request whose
\* source carries no recognised signature ends with an outcome the caller
\* can tell from that of a request (for the same mode) that failed for an
\* invalid mode, an undecodable stream or an unsupported output format.
C22_UnsupportedSourceDistinct ==
    \A p, q \in Procs :
        ( /\ p # q /\ Done(p) /\ Done(q)
          /\ tr[p].generated = "failed" /\ tr[q].generated = "failed"
          /\ loc[p].mode = loc[q].mode
          /\ Cause(p) \in UnsupportedSource
          /\ Cause(q) \in OtherCauses ) =>
            outcome[p] # outcome[q]

\* ---------------------------------------------------------------------- C26
Recognised == {"jpeg", "png", "riff", "webp"}

\* C26: the decoder sees the whole source.  For a source with a recognised
\* signature the decoder selected by sniffing reads from offset 0, the
\* sniffed header bytes included; so an intact JPEG, PNG or WebP source
\* requested in a valid mode generates.
C26_DecoderSeesWholeSource ==
    \A p \in Procs :
        (tr[p].generate = 1 /\ gobytes[p].sig \in Recognised) =>
            /\ decoderOffset(gobytes[p]) = 0
            /\ ( /\ gobytes[p].intact
                 /\ loc[p].mode \in DOMAIN cropModeMap ) => tr[p].generated = "ok"

\* ---------------------------------------------------------------------- C27
\* C27: decoder selection depends only on content.  Two requests that hand
\* generation identical source bytes under paths of different extensions
\* have them decoded alike: both generations succeed on the same picture or
\* both fail; and a source whose leading bytes match no known signature is
\* refused, whatever format its extension names.
C27_DecoderByContent ==
    /\ \A p, q \in Procs :
          ( /\ p # q /\ tr[p].generate = 1 /\ tr[q].generate = 1
            /\ gobytes[p] = gobytes[q]
            /\ loc[p].format # loc[q].format
            /\ loc[p].mode = loc[q].mode
            /\ loc[p].width = loc[q].width /\ loc[p].height = loc[q].height
            /\ ExtSignature(loc[p].format) # "other"
            /\ ExtSignature(loc[q].format) # "other" ) =>
              /\ tr[p].generated = tr[q].generated
              /\ result[p].img = result[q].img
    /\ \A p \in Procs :
          (tr[p].generate = 1 /\ gobytes[p].sig \notin Recognised) =>
              /\ tr[p].generated = "failed"
              /\ result[p] = NoBytes /\ served[p] = NoBytes
              /\ Done(p) /\ outcome[p].kind = "GenerationError"
              /\ thumbPath(p) \notin DOMAIN thumbsStorage

\* The JPEG a.jpg and the same bytes requested as a.png have both been
\* decoded as JPEG and have generated from the same picture.
C27_Witness ==
    \E p, q \in Procs :
        /\ p # q /\ tr[p].generated = "ok" /\ tr[q].generated = "ok"
        /\ gobytes[p] = gobytes[q]
        /\ loc[p].format = JpgExt /\ loc[q].format = PngExt
        /\ result[p].img = result[q].img /\ result[p].img # NoImage

====
